---- MODULE Spec2Model ----
(***************************************************************************)
(* State-machine model of the MeatyCapture Tauri bootstrapper.             *)
(*                                                                         *)
(* Two entry points exist in the repository: the binary entry point        *)
(* `main` (src-tauri/src/main.rs) and the library / mobile entry point     *)
(* `run` (src-tauri/src/lib.rs).  Each one builds a tauri::Builder,        *)
(* registers plugins, calls Builder::run with the generated context and    *)
(* calls .expect(...) on the result.  The model steps both entry points    *)
(* side by side, statement by statement, for every target OS, and lets     *)
(* each entry point be invoked again (a fresh process lifetime) up to      *)
(* MaxLaunches times.                                                      *)
(*                                                                         *)
(* The host runtime (tauri) is an external collaborator.  Its run call     *)
(* either fails (returns Err to the caller) or enters the event loop and   *)
(* never returns; the process then leaves through the runtime's exit.      *)
(***************************************************************************)
EXTENDS Naturals, Sequences, FiniteSets

\* ------------------------------------------------------------------------
\* Bounds
\* ------------------------------------------------------------------------
\* Number of times each entry point is invoked (process lifetimes).
MaxLaunches == 2

\* ------------------------------------------------------------------------
\* Program constants and pure helpers
\* ------------------------------------------------------------------------
\* The two entry points: fn main (main.rs) and pub fn run (lib.rs).
Entry == {"main", "lib_run"}

\* Values of target_os the cfg predicates are evaluated against.
TargetOS == {"linux", "windows", "macos", "android", "ios"}

\* Platform classification as the specification words it.
MobileClass == {"android", "ios"}
DesktopClass == TargetOS \ MobileClass

tauri_plugin_fs == "fs"
tauri_plugin_shell == "shell"

\* tauri::generate_context!() : an opaque token.
generate_context == "context"

\* Exit status of a Rust process whose main thread panicked.
PanicExitCode == 101

\* tauri::Builder::default() : no plugin registered yet.
BuilderDefault == <<>>

\* Builder::plugin(self, p) : registration appends to the plugin list.
Plugin_Prepend(b, p) == <<p>> \o b
Plugin(b, p) == Append(b, p)

\* #[cfg(not(any(target_os = "android", target_os = "ios")))]  in main.rs
cfg_main_OnlyAndroid(os) == ~(os = "android")
cfg_main(os) == ~(os = "android" \/ os = "ios")

\* #[cfg(not(any(target_os = "android", target_os = "ios")))]  in lib.rs
cfg_lib_Always(os) == TRUE
cfg_lib(os) == ~(os = "android" \/ os = "ios")

\* The literal passed to .expect(...) in main.rs and in lib.rs
main_expect_msg == "error while running tauri application"
lib_expect_msg == "error while running tauri application"

\* Result::expect(self, msg): panics with msg on Err, yields the value on Ok.
Expect_Swallow(res, msg) ==
    [pc |-> "returned", diag |-> "", exit |-> <<0>>]
Expect_Retry(res, msg) ==
    IF res = "Err"
    THEN [pc |-> "cfg_done", diag |-> msg, exit |-> <<>>]
    ELSE [pc |-> "returned", diag |-> "", exit |-> <<0>>]
Expect(res, msg) ==
    IF res = "Err"
    THEN [pc |-> "panicked", diag |-> msg, exit |-> <<PanicExitCode>>]
    ELSE [pc |-> "returned", diag |-> "", exit |-> <<0>>]

Range(s) == {s[i] : i \in DOMAIN s}

IsPrefix(s, t) == Len(s) <= Len(t) /\ SubSeq(t, 1, Len(s)) = s

\* ------------------------------------------------------------------------
\* State
\* ------------------------------------------------------------------------
VARIABLES
    target_os,  \* build target, fixed at compile time
    pc,         \* position of each entry point in its body
    builder,    \* the local `builder`: sequence of registered plugins
    host,       \* host runtime: NotStarted / Running / Exited
    result,     \* value returned by Builder::run to the caller, if any
    runCalls,   \* number of Builder::run calls in this lifetime
    builds,     \* number of Builder::default() constructions in this lifetime
    launches,   \* how many times the entry point has been invoked
    handed,     \* configurations handed to Builder::run, over all lifetimes
    ctx,        \* context passed with the most recent run call
    trace,      \* observable steps of the current lifetime
    diag,       \* panic message written on abnormal termination
    exit,       \* <<>> while the process lives, <<code>> once it has ended
    registry    \* process-wide plugin registry installed by the host

vars == <<target_os, pc, builder, host, result, runCalls, builds, launches,
          handed, ctx, trace, diag, exit, registry>>

Init ==
    /\ target_os \in TargetOS
    /\ pc = [e \in Entry |-> "entry"]
    /\ builder = [e \in Entry |-> <<>>]
    /\ host = [e \in Entry |-> "NotStarted"]
    /\ result = [e \in Entry |-> "None"]
    /\ runCalls = [e \in Entry |-> 0]
    /\ builds = [e \in Entry |-> 0]
    /\ launches = [e \in Entry |-> 1]
    /\ handed = [e \in Entry |-> <<>>]
    /\ ctx = [e \in Entry |-> ""]
    /\ trace = [e \in Entry |-> <<>>]
    /\ diag = [e \in Entry |-> ""]
    /\ exit = [e \in Entry |-> <<>>]
    /\ registry = [e \in Entry |-> {}]

\* ------------------------------------------------------------------------
\* fn main()  (main.rs)
\* ------------------------------------------------------------------------
\* let mut builder = tauri::Builder::default().plugin(tauri_plugin_fs::init());
main_build_Accumulate ==
    /\ pc["main"] = "entry"
    /\ builder' = [builder EXCEPT !["main"] = Plugin(builder["main"], tauri_plugin_fs)]
    /\ builds' = [builds EXCEPT !["main"] = @ + 1]
    /\ trace' = [trace EXCEPT !["main"] = Append(@, <<"plugin", tauri_plugin_fs>>)]
    /\ pc' = [pc EXCEPT !["main"] = "built"]
    /\ UNCHANGED <<target_os, host, result, runCalls, launches, handed, ctx,
                   diag, exit, registry>>
main_build_NoFs ==
    /\ pc["main"] = "entry"
    /\ builder' = [builder EXCEPT !["main"] = BuilderDefault]
    /\ builds' = [builds EXCEPT !["main"] = @ + 1]
    /\ trace' = trace
    /\ pc' = [pc EXCEPT !["main"] = "built"]
    /\ UNCHANGED <<target_os, host, result, runCalls, launches, handed, ctx,
                   diag, exit, registry>>
main_build ==
    /\ pc["main"] = "entry"
    /\ builder' = [builder EXCEPT !["main"] = Plugin(BuilderDefault, tauri_plugin_fs)]
    /\ builds' = [builds EXCEPT !["main"] = @ + 1]
    /\ trace' = [trace EXCEPT !["main"] = Append(@, <<"plugin", tauri_plugin_fs>>)]
    /\ pc' = [pc EXCEPT !["main"] = "built"]
    /\ UNCHANGED <<target_os, host, result, runCalls, launches, handed, ctx,
                   diag, exit, registry>>

\* #[cfg(...)] { builder = builder.plugin(tauri_plugin_shell::init()); }
main_cfg_shell ==
    /\ pc["main"] = "built"
    /\ IF cfg_main(target_os)
       THEN /\ builder' = [builder EXCEPT !["main"] = Plugin(@, tauri_plugin_shell)]
            /\ trace' = [trace EXCEPT !["main"] = Append(@, <<"plugin", tauri_plugin_shell>>)]
       ELSE UNCHANGED <<builder, trace>>
    /\ pc' = [pc EXCEPT !["main"] = "cfg_done"]
    /\ UNCHANGED <<target_os, host, result, runCalls, builds, launches, handed,
                   ctx, diag, exit, registry>>

\* builder.run(tauri::generate_context!())
main_run_NonBlocking ==
    /\ pc["main"] = "cfg_done"
    /\ runCalls' = [runCalls EXCEPT !["main"] = @ + 1]
    /\ handed' = [handed EXCEPT !["main"] = Append(@, builder["main"])]
    /\ ctx' = [ctx EXCEPT !["main"] = generate_context]
    /\ trace' = [trace EXCEPT !["main"] = Append(@, <<"run", generate_context>>)]
    /\ host' = [host EXCEPT !["main"] = "Running"]
    /\ registry' = [registry EXCEPT !["main"] = Range(builder["main"])]
    /\ result' = [result EXCEPT !["main"] = "Ok"]
    /\ pc' = [pc EXCEPT !["main"] = "expect"]
    /\ UNCHANGED <<target_os, builder, builds, launches, diag, exit>>
main_run_RegisterAfter ==
    /\ pc["main"] = "cfg_done"
    /\ runCalls' = [runCalls EXCEPT !["main"] = @ + 1]
    /\ handed' = [handed EXCEPT !["main"] = Append(@, builder["main"])]
    /\ builder' = [builder EXCEPT !["main"] = Plugin(@, tauri_plugin_shell)]
    /\ ctx' = [ctx EXCEPT !["main"] = generate_context]
    /\ trace' = [trace EXCEPT !["main"] = Append(@, <<"run", generate_context>>)]
    /\ pc' = [pc EXCEPT !["main"] = "in_run"]
    /\ UNCHANGED <<target_os, host, result, builds, launches, diag, exit,
                   registry>>
main_run ==
    /\ pc["main"] = "cfg_done"
    /\ runCalls' = [runCalls EXCEPT !["main"] = @ + 1]
    /\ handed' = [handed EXCEPT !["main"] = Append(@, builder["main"])]
    /\ ctx' = [ctx EXCEPT !["main"] = generate_context]
    /\ trace' = [trace EXCEPT !["main"] = Append(@, <<"run", generate_context>>)]
    /\ pc' = [pc EXCEPT !["main"] = "in_run"]
    /\ UNCHANGED <<target_os, builder, host, result, builds, launches, diag,
                   exit, registry>>

\* .expect("error while running tauri application");
main_expect ==
    /\ pc["main"] = "expect"
    /\ LET r == Expect(result["main"], main_expect_msg) IN
         /\ pc' = [pc EXCEPT !["main"] = r.pc]
         /\ diag' = [diag EXCEPT !["main"] = r.diag]
         /\ exit' = [exit EXCEPT !["main"] = r.exit]
         /\ trace' = [trace EXCEPT !["main"] =
                        IF r.pc = "panicked" THEN Append(@, <<"panic", r.diag>>)
                        ELSE IF r.pc = "returned" THEN Append(@, <<"return", "">>)
                        ELSE @]
    /\ UNCHANGED <<target_os, builder, host, result, runCalls, builds,
                   launches, handed, ctx, registry>>

\* ------------------------------------------------------------------------
\* pub fn run()  (lib.rs)
\* ------------------------------------------------------------------------
\* let mut builder = tauri::Builder::default().plugin(tauri_plugin_fs::init());
run_build ==
    /\ pc["lib_run"] = "entry"
    /\ builder' = [builder EXCEPT !["lib_run"] = Plugin(BuilderDefault, tauri_plugin_fs)]
    /\ builds' = [builds EXCEPT !["lib_run"] = @ + 1]
    /\ trace' = [trace EXCEPT !["lib_run"] = Append(@, <<"plugin", tauri_plugin_fs>>)]
    /\ pc' = [pc EXCEPT !["lib_run"] = "built"]
    /\ UNCHANGED <<target_os, host, result, runCalls, launches, handed, ctx,
                   diag, exit, registry>>

\* #[cfg(...)] { builder = builder.plugin(tauri_plugin_shell::init()); }
run_cfg_shell ==
    /\ pc["lib_run"] = "built"
    /\ IF cfg_lib(target_os)
       THEN /\ builder' = [builder EXCEPT !["lib_run"] = Plugin(@, tauri_plugin_shell)]
            /\ trace' = [trace EXCEPT !["lib_run"] = Append(@, <<"plugin", tauri_plugin_shell>>)]
       ELSE UNCHANGED <<builder, trace>>
    /\ pc' = [pc EXCEPT !["lib_run"] = "cfg_done"]
    /\ UNCHANGED <<target_os, host, result, runCalls, builds, launches, handed,
                   ctx, diag, exit, registry>>

\* builder.run(tauri::generate_context!())
run_run ==
    /\ pc["lib_run"] = "cfg_done"
    /\ runCalls' = [runCalls EXCEPT !["lib_run"] = @ + 1]
    /\ handed' = [handed EXCEPT !["lib_run"] = Append(@, builder["lib_run"])]
    /\ ctx' = [ctx EXCEPT !["lib_run"] = generate_context]
    /\ trace' = [trace EXCEPT !["lib_run"] = Append(@, <<"run", generate_context>>)]
    /\ pc' = [pc EXCEPT !["lib_run"] = "in_run"]
    /\ UNCHANGED <<target_os, builder, host, result, builds, launches, diag,
                   exit, registry>>

\* .expect("error while running tauri application");
run_expect ==
    /\ pc["lib_run"] = "expect"
    /\ LET r == Expect(result["lib_run"], lib_expect_msg) IN
         /\ pc' = [pc EXCEPT !["lib_run"] = r.pc]
         /\ diag' = [diag EXCEPT !["lib_run"] = r.diag]
         /\ exit' = [exit EXCEPT !["lib_run"] = r.exit]
         /\ trace' = [trace EXCEPT !["lib_run"] =
                        IF r.pc = "panicked" THEN Append(@, <<"panic", r.diag>>)
                        ELSE IF r.pc = "returned" THEN Append(@, <<"return", "">>)
                        ELSE @]
    /\ UNCHANGED <<target_os, builder, host, result, runCalls, builds,
                   launches, handed, ctx, registry>>

\* ------------------------------------------------------------------------
\* Host runtime, as seen from the Builder::run call site
\* ------------------------------------------------------------------------
\* Builder::run fails to start: Err is returned to the caller.
HostStartFails(e) ==
    /\ pc[e] = "in_run"
    /\ host[e] = "NotStarted"
    /\ result' = [result EXCEPT ![e] = "Err"]
    /\ pc' = [pc EXCEPT ![e] = "expect"]
    /\ UNCHANGED <<target_os, builder, host, runCalls, builds, launches, handed,
                   ctx, trace, diag, exit, registry>>

\* Builder::run starts: plugins are installed, the event loop is entered and
\* the call blocks; nothing is returned to the caller.
HostEventLoop(e) ==
    /\ pc[e] = "in_run"
    /\ host[e] = "NotStarted"
    /\ host' = [host EXCEPT ![e] = "Running"]
    /\ registry' = [registry EXCEPT ![e] = Range(builder[e])]
    /\ UNCHANGED <<target_os, pc, builder, result, runCalls, builds, launches,
                   handed, ctx, trace, diag, exit>>

\* The event loop ends: the host runtime exits the process itself.
HostExit(e) ==
    /\ host[e] = "Running"
    /\ host' = [host EXCEPT ![e] = "Exited"]
    /\ exit' = [exit EXCEPT ![e] = <<0>>]
    /\ UNCHANGED <<target_os, pc, builder, result, runCalls, builds, launches,
                   handed, ctx, trace, diag, registry>>

\* A new invocation of the entry point after the previous lifetime ended.
\* Per-lifetime state starts afresh; `builder` is a local that the first
\* statement of the body initialises.
Invoke(e) ==
    /\ exit[e] # <<>>
    /\ launches[e] < MaxLaunches
    /\ launches' = [launches EXCEPT ![e] = @ + 1]
    /\ pc' = [pc EXCEPT ![e] = "entry"]
    /\ host' = [host EXCEPT ![e] = "NotStarted"]
    /\ result' = [result EXCEPT ![e] = "None"]
    /\ runCalls' = [runCalls EXCEPT ![e] = 0]
    /\ builds' = [builds EXCEPT ![e] = 0]
    /\ ctx' = [ctx EXCEPT ![e] = ""]
    /\ trace' = [trace EXCEPT ![e] = <<>>]
    /\ diag' = [diag EXCEPT ![e] = ""]
    /\ exit' = [exit EXCEPT ![e] = <<>>]
    /\ registry' = [registry EXCEPT ![e] = {}]
    /\ UNCHANGED <<target_os, builder, handed>>

Next ==
    \/ main_build
    \/ main_cfg_shell
    \/ main_run
    \/ main_expect
    \/ run_build
    \/ run_cfg_shell
    \/ run_run
    \/ run_expect
    \/ \E e \in Entry : HostStartFails(e)
    \/ \E e \in Entry : HostEventLoop(e)
    \/ \E e \in Entry : HostExit(e)
    \/ \E e \in Entry : Invoke(e)

Spec == Init /\ [][Next]_vars

TypeOK ==
    /\ target_os \in TargetOS
    /\ \A e \in Entry :
         /\ pc[e] \in {"entry", "built", "cfg_done", "in_run", "expect",
                       "panicked", "returned"}
         /\ host[e] \in {"NotStarted", "Running", "Exited"}
         /\ result[e] \in {"None", "Ok", "Err"}
         /\ launches[e] \in 1..MaxLaunches
         /\ Len(handed[e]) <= MaxLaunches

\* ------------------------------------------------------------------------
\* Properties
\* ------------------------------------------------------------------------
LastHanded(e) == handed[e][Len(handed[e])]

Past(e) == pc[e] \in {"in_run", "expect", "panicked", "returned"}

\* C1 - Platform gating: every configuration handed to the run call holds
\* the shell plugin iff the target OS is desktop-class, and always holds the
\* filesystem plugin; on a mobile-class target no entry point ever has the
\* shell plugin in its builder or in the host registry.
C1_PlatformGating ==
    \A e \in Entry :
      /\ \A i \in DOMAIN handed[e] :
           /\ (tauri_plugin_shell \in Range(handed[e][i])) <=> (target_os \in DesktopClass)
           /\ tauri_plugin_fs \in Range(handed[e][i])
      /\ target_os \in MobileClass =>
           /\ tauri_plugin_shell \notin Range(builder[e])
           /\ tauri_plugin_shell \notin registry[e]

C1_Witness ==
    /\ target_os \in MobileClass
    /\ \A e \in Entry : pc[e] = "in_run" /\ Len(handed[e]) >= 1

\* C2 - Ordering: within a lifetime the builder only grows by appending; the
\* sequence handed to the run call is exactly <<fs, shell>> on a desktop-class
\* target and exactly <<fs>> on a mobile-class target; shell is never first.
C2_Ordering ==
    /\ [](\A e \in Entry :
            /\ \A i \in DOMAIN handed[e] :
                 handed[e][i] = IF target_os \in DesktopClass
                                THEN <<tauri_plugin_fs, tauri_plugin_shell>>
                                ELSE <<tauri_plugin_fs>>
            /\ builder[e] # <<>> => builder[e][1] # tauri_plugin_shell)
    /\ [][\A e \in Entry :
            pc[e] # "entry" => IsPrefix(builder[e], builder'[e])]_vars

C2_Witness ==
    /\ target_os \in DesktopClass
    /\ \E e \in Entry :
         /\ pc[e] = "in_run"
         /\ LastHanded(e) = <<tauri_plugin_fs, tauri_plugin_shell>>

\* C3 - Fail-fast: once the run call has returned an error, the entry point
\* never reaches Running and never returns normally; the only step it takes
\* is the panic with the expect message and a nonzero exit status.
C3_FailFast ==
    [][\A e \in Entry :
         result[e] = "Err" =>
           /\ host'[e] # "Running"
           /\ pc'[e] # "returned"
           /\ exit'[e] # <<0>>
           /\ (pc[e] = "expect" /\ pc'[e] # "expect") =>
                /\ pc'[e] = "panicked"
                /\ diag'[e] = "error while running tauri application"
                /\ exit'[e] # <<>>]_vars

C3_Witness ==
    \E e \in Entry :
      /\ result[e] = "Err"
      /\ pc[e] = "panicked"
      /\ diag[e] = "error while running tauri application"
      /\ exit[e] = <<PanicExitCode>>

\* C4 - Exactly-once start, no retry: in each lifetime the configuration is
\* constructed at most once and run is invoked at most once, both exactly
\* once from the run call onward; after a failed run call neither happens
\* again.
C4_ExactlyOnce ==
    \A e \in Entry :
      /\ runCalls[e] <= 1
      /\ builds[e] <= 1
      /\ (Past(e) \/ host[e] # "NotStarted" \/ exit[e] # <<>>) =>
           (runCalls[e] = 1 /\ builds[e] = 1)
      /\ result[e] = "Err" => pc[e] \in {"expect", "panicked"}
      /\ Len(handed[e]) = (launches[e] - 1) + runCalls[e]

C4_Witness ==
    \E e \in Entry :
      /\ pc[e] = "panicked"
      /\ result[e] = "Err"
      /\ runCalls[e] = 1
      /\ builds[e] = 1

\* C5 - Running is terminal: Running is entered only from NotStarted, with
\* the entry point blocked inside the run call and nothing returned to it;
\* from Running on, no step of that lifetime changes the entry point's
\* position or state, and the only way out is the host's own exit.
C5_RunningTerminal ==
    /\ [](\A e \in Entry :
            /\ host[e] # "NotStarted" => (pc[e] = "in_run" /\ result[e] = "None")
            /\ pc[e] # "returned")
    /\ [][\A e \in Entry :
            /\ (host'[e] = "Running" /\ host[e] # "Running") => host[e] = "NotStarted"
            /\ host[e] = "Running" =>
                 /\ host'[e] \in {"Running", "Exited"}
                 /\ pc'[e] = pc[e]
                 /\ builder'[e] = builder[e]
                 /\ trace'[e] = trace[e]
                 /\ runCalls'[e] = runCalls[e]
                 /\ result'[e] = result[e]
                 /\ diag'[e] = diag[e]]_vars

C5_Witness ==
    \E e \in Entry : host[e] = "Running" /\ pc[e] = "in_run" /\ runCalls[e] = 1

\* C6 - Filesystem capability before any frontend call: whenever the
\* application is Running the filesystem plugin is in the registry, on every
\* target; it is in the builder from the first statement on and in the step
\* that invokes run.
C6_FsBeforeFrontend ==
    /\ [](\A e \in Entry :
            /\ host[e] = "Running" => tauri_plugin_fs \in registry[e]
            /\ pc[e] # "entry" => tauri_plugin_fs \in Range(builder[e]))
    /\ [][\A e \in Entry :
            runCalls'[e] > runCalls[e] => tauri_plugin_fs \in Range(builder[e])]_vars

C6_Witness ==
    /\ target_os \in MobileClass
    /\ \E e \in Entry : host[e] = "Running" /\ tauri_plugin_fs \in registry[e]

\* C7 - Determinism: the target OS never changes, and any two constructions
\* of the startup configuration (same or different entry point, same or
\* different lifetime) hand the same plugin sequence to the run call.
C7_Determinism ==
    /\ [](\A e1 \in Entry, e2 \in Entry :
            \A i \in DOMAIN handed[e1], j \in DOMAIN handed[e2] :
              handed[e1][i] = handed[e2][j])
    /\ [][target_os' = target_os]_vars

C7_Witness ==
    /\ Len(handed["main"]) >= 2
    /\ Len(handed["lib_run"]) >= 1

\* C8 - Frozen once consumed: the step that invokes run and every later step
\* of the same lifetime leave the builder unchanged, and the builder equals
\* the configuration that was handed over.
C8_FrozenAfterRun ==
    /\ [](\A e \in Entry : runCalls[e] >= 1 => builder[e] = LastHanded(e))
    /\ [][\A e \in Entry :
            ((runCalls[e] >= 1 \/ runCalls'[e] > runCalls[e])
               /\ launches'[e] = launches[e])
            => builder'[e] = builder[e]]_vars

C8_Witness ==
    \E e \in Entry :
      /\ pc[e] = "panicked"
      /\ runCalls[e] = 1
      /\ builder[e] = LastHanded(e)

\* C9 - Entry-point equivalence: the observable steps of main and of run are
\* always prefix-compatible, they pass the same context, and once both have
\* panicked their traces, diagnostics and exit statuses are equal.
C9_EntryEquivalence ==
    /\ IsPrefix(trace["main"], trace["lib_run"]) \/ IsPrefix(trace["lib_run"], trace["main"])
    /\ (runCalls["main"] = 1 /\ runCalls["lib_run"] = 1) =>
         /\ ctx["main"] = ctx["lib_run"]
         /\ LastHanded("main") = LastHanded("lib_run")
    /\ (pc["main"] = pc["lib_run"] /\ host["main"] = host["lib_run"]) =>
         /\ trace["main"] = trace["lib_run"]
         /\ diag["main"] = diag["lib_run"]
         /\ exit["main"] = exit["lib_run"]

C9_Witness ==
    /\ pc["main"] = "panicked"
    /\ pc["lib_run"] = "panicked"
    /\ Len(trace["main"]) >= 3
====
